---------------------------- MODULE Spec2Model ----------------------------
(***************************************************************************)
(* age-plugin-bip39: key derivation from a BIP39 phrase, the X25519 stanza *)
(* codec (wrapX25519 / unwrapX25519), Bip39Identity.Unwrap, the kernel     *)
(* keyring cache and the phrase wizard of the keygen command.              *)
(*                                                                         *)
(* Byte strings are sequences of integers 0..255.  Key material is scaled  *)
(* from 32 bytes to KeyLen bytes; the library primitives the program calls *)
(* (X25519, HKDF, ChaCha20-Poly1305, base64, BIP39) are modelled by what   *)
(* they compute on that scale:                                             *)
(*   - X25519 is exponentiation in the multiplicative group modulo the     *)
(*     prime 2^15 - 19, on little-endian encodings whose top bit is        *)
(*     ignored, with clamped scalars and an error on an all-zero output;   *)
(*   - HKDF is an ideal key derivation (injective in secret, salt, info);  *)
(*   - the AEAD is a stream cipher with an ideal authentication tag.       *)
(***************************************************************************)
EXTENDS Integers, Sequences, FiniteSets, TLC

VARIABLES
    env,        \* value of AGE_PLUGIN_BIP39_CACHE in the process environment
    store,      \* the user keyring: key description -> entry or NoEntry
    call,       \* the Bip39Identity.Unwrap call in progress, per process
    wire,       \* stanzas travelling from Recipient.Wrap to an unwrap
    sent,       \* what the last Recipient.Wrap was asked to wrap
    got,        \* what the last unwrap of `wire` returned
    clock,      \* milliseconds since cacheKey last wrote the keyring
    wraps,      \* the wrapX25519 calls made so far
    clamped,    \* a hash prefix and what clamping has made of it
    wizard      \* the runs of the phrase wizard fed the same key events

vars == <<env, store, call, wire, sent, got, clock, wraps, clamped, wizard>>

(***************************************************************************)
(* Bounds of the model.                                                    *)
(***************************************************************************)
NumEntropies == 3      \* distinct 256-bit entropies (so: phrases, key pairs)
NumFileKeys == 2       \* distinct file keys handed to Wrap
NumEphemerals == 2     \* distinct draws of rand.Reader in wrapX25519
MaxStanzas == 2        \* longest stanza sequence handed to Unwrap

(***************************************************************************)
(* Bytes and bits.                                                         *)
(***************************************************************************)
Byte == 0..255

RECURSIVE Pow2(_)
Pow2(n) == IF n = 0 THEN 1 ELSE 2 * Pow2(n - 1)

RECURSIVE BitAnd(_, _)
BitAnd(a, b) ==
    IF a = 0 \/ b = 0 THEN 0
    ELSE (a % 2) * (b % 2) + 2 * BitAnd(a \div 2, b \div 2)

RECURSIVE BitOr(_, _)
BitOr(a, b) ==
    IF a = 0 THEN b ELSE IF b = 0 THEN a
    ELSE (IF a % 2 = 1 \/ b % 2 = 1 THEN 1 ELSE 0) + 2 * BitOr(a \div 2, b \div 2)

RECURSIVE BitXor(_, _)
BitXor(a, b) ==
    IF a = 0 THEN b ELSE IF b = 0 THEN a
    ELSE ((a + b) % 2) + 2 * BitXor(a \div 2, b \div 2)

\* x with bit i (0 = least significant) inverted
FlipBit(x, i) == BitXor(x, Pow2(i))

\* little-endian value of a byte string (X25519 scalars and u-coordinates)
RECURSIVE LittleEndian(_)
LittleEndian(bs) ==
    IF bs = <<>> THEN 0 ELSE Head(bs) + 256 * LittleEndian(Tail(bs))

\* big-endian value of a byte string (the bit order base64 and hex read in)
RECURSIVE BigEndian(_)
BigEndian(bs) ==
    IF bs = <<>> THEN 0
    ELSE Head(bs) * Pow2(8 * (Len(bs) - 1)) + BigEndian(Tail(bs))

\* the sequence <<f[1], ..., f[n]>>
RECURSIVE BuildSeq(_, _)
BuildSeq(f, n) == IF n = 0 THEN <<>> ELSE Append(BuildSeq(f, n - 1), f[n])

\* the n-byte little-endian encoding of v
ToLittleEndian(v, n) == BuildSeq([i \in 1..n |-> (v \div Pow2(8 * (i - 1))) % 256], n)

\* the n-byte big-endian encoding of v
ToBigEndian(v, n) == BuildSeq([i \in 1..n |-> (v \div Pow2(8 * (n - i))) % 256], n)

RECURSIVE SelectSeqNot(_, _)
SelectSeqNot(s, drop) ==
    IF s = <<>> THEN <<>>
    ELSE IF Head(s) \in drop THEN SelectSeqNot(Tail(s), drop)
    ELSE <<Head(s)>> \o SelectSeqNot(Tail(s), drop)

(***************************************************************************)
(* base64.RawStdEncoding.Strict(): the standard alphabet, no padding       *)
(* characters, and trailing padding bits must be zero.  Strings are        *)
(* sequences of character codes.                                           *)
(***************************************************************************)
Failed == [ok |-> FALSE, val |-> <<>>]
Ok(v) == [ok |-> TRUE, val |-> v]

B64Char(v) ==
    IF v < 26 THEN 65 + v
    ELSE IF v < 52 THEN 97 + (v - 26)
    ELSE IF v < 62 THEN 48 + (v - 52)
    ELSE IF v = 62 THEN 43 ELSE 47

B64Alphabet == {B64Char(v) : v \in 0..63}

B64Val(c) == CHOOSE v \in 0..63 : B64Char(v) = c

RECURSIVE SextetValue(_)
SextetValue(cs) ==
    IF cs = <<>> THEN 0
    ELSE B64Val(Head(cs)) * Pow2(6 * (Len(cs) - 1)) + SextetValue(Tail(cs))

\* b64.EncodeToString, for the short strings of the model
B64Encode(bs) ==
    LET n == Len(bs)
        m == (8 * n + 5) \div 6
        w == BigEndian(bs) * Pow2(6 * m - 8 * n)
    IN  BuildSeq([i \in 1..m |-> B64Char((w \div Pow2(6 * (m - i))) % 64)], m)

\* b64 without Strict(): padding bits are not looked at
B64DecodeLenient(str) ==
    LET cs == SelectSeqNot(str, {10, 13})
        m == Len(cs)
        n == (6 * m) \div 8
        pad == 6 * m - 8 * n
    IN  IF \E i \in 1..m : cs[i] \notin B64Alphabet THEN Failed
        ELSE IF m % 4 = 1 THEN Failed
        ELSE Ok(ToBigEndian(SextetValue(cs) \div Pow2(pad), n))

\* b64.DecodeString: CR and LF are skipped; a character outside the
\* alphabet, a dangling single character or a non-zero padding bit fails.
B64Decode(str) ==
    LET cs == SelectSeqNot(str, {10, 13})
        m == Len(cs)
        n == (6 * m) \div 8
        pad == 6 * m - 8 * n
    IN  IF \E i \in 1..m : cs[i] \notin B64Alphabet THEN Failed
        ELSE IF m % 4 = 1 THEN Failed
        ELSE IF SextetValue(cs) % Pow2(pad) # 0 THEN Failed
        ELSE Ok(ToBigEndian(SextetValue(cs) \div Pow2(pad), n))

(***************************************************************************)
(* curve25519.X25519 on KeyLen-byte strings.                               *)
(***************************************************************************)
KeyLen == 2                 \* the 32 of the program, scaled
FieldPrime == 32749         \* 2^15 - 19, for 2^255 - 19
Basepoint == <<9, 0>>       \* curve25519.Basepoint

\* the clamp without its last line, x25519Private[31] |= 64
ClampNoSet(k) ==
    BuildSeq([i \in 1..Len(k) |->
                 LET a == IF i = 1 THEN BitAnd(k[i], 248) ELSE k[i]
                 IN  IF i = Len(k) THEN BitAnd(a, 127) ELSE a], Len(k))

\* the clamping every X25519 implementation applies to its scalar, and
\* deriveX25519FromMnemonic applies itself (main.go:177-180)
Clamp(k) ==
    BuildSeq([i \in 1..Len(k) |->
                 LET a == IF i = 1 THEN BitAnd(k[i], 248) ELSE k[i]
                 IN  IF i = Len(k) THEN BitOr(BitAnd(a, 127), 64) ELSE a], Len(k))

RECURSIVE PowMod(_, _)
PowMod(b, e) ==
    IF e = 0 THEN 1
    ELSE LET h == PowMod(b, e \div 2)
             sq == (h * h) % FieldPrime
         IN  IF e % 2 = 1 THEN (sq * b) % FieldPrime ELSE sq

\* the u-coordinate a byte string stands for: top bit masked, then reduced
DecodeU(point) == (LittleEndian(point) % Pow2(8 * KeyLen - 1)) % FieldPrime

\* curve25519.X25519(scalar, point): fails on a wrong length and on a
\* low-order point (all-zero output)
X25519(scalar, point) ==
    IF Len(scalar) # KeyLen \/ Len(point) # KeyLen THEN Failed
    ELSE LET r == PowMod(DecodeU(point), LittleEndian(Clamp(scalar)))
         IN  IF r = 0 THEN Failed ELSE Ok(ToLittleEndian(r, KeyLen))


(***************************************************************************)
(* hkdf.New(sha256.New, secret, salt, info) read for KeySize bytes: an     *)
(* ideal key derivation, so distinct inputs give distinct keys.            *)
(***************************************************************************)
x25519Label == "age-encryption.org/v1/X25519"

HKDF(secret, salt, info) == <<secret, salt, info>>

(***************************************************************************)
(* chacha20poly1305 under the all-zero nonce with no associated data.  A   *)
(* sealed body is the plaintext XOR the key's stream, followed by a tag:   *)
(* the ideal MAC of (key, ciphertext), XOR a mask that is 0 as sealed and  *)
(* records the tag bits changed since.                                     *)
(***************************************************************************)
RECURSIVE Digest(_)
Digest(bs) == IF bs = <<>> THEN 7 ELSE (Digest(Tail(bs)) * 31 + Head(bs)) % 251

\* byte i of the ChaCha20 key stream of `key`
KeyStream(key, i) == (Digest(key[1] \o key[2]) * 13 + 101 * i) % 256

Poly1305(key, ct) == [mac |-> <<key, ct>>, mask |-> 0]

\* XORKeyStream
XorStream(key, bs) ==
    BuildSeq([i \in 1..Len(bs) |-> BitXor(bs[i], KeyStream(key, i))], Len(bs))

\* aead.Seal(nil, nonce, plaintext, nil)
Seal(key, plaintext) ==
    LET ct == XorStream(key, plaintext)
    IN  [ct |-> ct, tag |-> <<Poly1305(key, ct)>>]

\* aead.Open(nil, nonce, ciphertext, nil): fails on a body shorter than a
\* tag and on a tag that does not authenticate the ciphertext
Open(key, body) ==
    IF body.tag = <<>> THEN Failed
    ELSE IF body.tag[1] # Poly1305(key, body.ct) THEN Failed
    ELSE Ok(XorStream(key, body.ct))

aeadEncrypt(key, plaintext) == Ok(Seal(key, plaintext))

\* decryption that does not authenticate
aeadDecryptNoAuth(key, ciphertext) == Ok(XorStream(key, ciphertext.ct))

aeadDecrypt(key, ciphertext) == Open(key, ciphertext)

(***************************************************************************)
(* The stanza codec.                                                       *)
(***************************************************************************)
\* a key generation that returns one and the same key pair
GenerateKeyStatic(rnd) == [priv |-> <<8, 64>>, pub |-> X25519(<<8, 64>>, Basepoint).val]

\* ecdh.X25519().GenerateKey(rand.Reader), rnd being the bytes drawn
GenerateKey(rnd) == [priv |-> rnd, pub |-> X25519(rnd, Basepoint).val]

\* the salt of both directions: ephemeral public key, then recipient key
Salt(ephemeralPub, recipientPubKey) == ephemeralPub \o recipientPubKey

\* wrapX25519(recipientPubKey, fileKey), rnd being what rand.Reader gave
wrapX25519(recipientPubKey, fileKey, rnd) ==
    LET ephemeral == GenerateKey(rnd)
        sharedSecret == X25519(ephemeral.priv, recipientPubKey)
        wrappingKey == HKDF(sharedSecret.val,
                            Salt(ephemeral.pub, recipientPubKey), x25519Label)
        wrappedKey == aeadEncrypt(wrappingKey, fileKey)
    IN  IF ~sharedSecret.ok THEN Failed
        ELSE IF ~wrappedKey.ok THEN Failed
        ELSE Ok(<<[Type |-> "X25519",
                   Args |-> <<B64Encode(ephemeral.pub)>>,
                   Body |-> wrappedKey.val]>>)

\* unwrapX25519 with the two halves of the salt in the other order
unwrapX25519SaltSwapped(secretKey, ourPublicKey, stanza) ==
    IF Len(stanza.Args) # 1 THEN Failed
    ELSE LET ephemeralPub == B64Decode(stanza.Args[1])
         IN  IF ~ephemeralPub.ok THEN Failed
             ELSE IF Len(ephemeralPub.val) # KeyLen THEN Failed
             ELSE LET sharedSecret == X25519(secretKey, ephemeralPub.val)
                      wrappingKey == HKDF(sharedSecret.val,
                                          Salt(ourPublicKey, ephemeralPub.val),
                                          x25519Label)
                  IN  IF ~sharedSecret.ok THEN Failed
                      ELSE aeadDecrypt(wrappingKey, stanza.Body)

\* unwrapX25519(secretKey, ourPublicKey, stanza)
unwrapX25519(secretKey, ourPublicKey, stanza) ==
    IF Len(stanza.Args) # 1 THEN Failed
    ELSE LET ephemeralPub == B64Decode(stanza.Args[1])
         IN  IF ~ephemeralPub.ok THEN Failed
             ELSE IF Len(ephemeralPub.val) # KeyLen THEN Failed
             ELSE LET sharedSecret == X25519(secretKey, ephemeralPub.val)
                      wrappingKey == HKDF(sharedSecret.val,
                                          Salt(ephemeralPub.val, ourPublicKey),
                                          x25519Label)
                  IN  IF ~sharedSecret.ok THEN Failed
                      ELSE aeadDecrypt(wrappingKey, stanza.Body)

\* Bip39Recipient.Wrap
RecipientWrap(publicKey, fileKey, rnd) == wrapX25519(publicKey, fileKey, rnd)

(***************************************************************************)
(* The stanza loop of Bip39Identity.Unwrap (main.go:237-248), from stanza  *)
(* i on: the result, and the indices unwrapX25519 was invoked on.          *)
(***************************************************************************)
ErrIncorrectIdentity == [ok |-> FALSE, err |-> "IncorrectIdentity", key |-> <<>>]
FileKey(k) == [ok |-> TRUE, err |-> "", key |-> k]
Error(e) == [ok |-> FALSE, err |-> e, key |-> <<>>]

\* the loop returning a stanza's error instead of going on to the next
RECURSIVE ScanAbortFrom(_, _, _, _)
ScanAbortFrom(privKey, publicKey, stanzas, i) ==
    IF i > Len(stanzas) THEN [res |-> ErrIncorrectIdentity, tried |-> <<>>]
    ELSE IF stanzas[i].Type # "X25519"
         THEN ScanAbortFrom(privKey, publicKey, stanzas, i + 1)
    ELSE LET fileKey == unwrapX25519(privKey, publicKey, stanzas[i])
         IN  IF ~fileKey.ok
             THEN [res |-> Error("unwrapX25519"), tried |-> <<i>>]
             ELSE [res |-> FileKey(fileKey.val), tried |-> <<i>>]

RECURSIVE ScanFrom(_, _, _, _)
ScanFrom(privKey, publicKey, stanzas, i) ==
    IF i > Len(stanzas) THEN [res |-> ErrIncorrectIdentity, tried |-> <<>>]
    ELSE IF stanzas[i].Type # "X25519"
         THEN ScanFrom(privKey, publicKey, stanzas, i + 1)
    ELSE LET fileKey == unwrapX25519(privKey, publicKey, stanzas[i])
             rest == ScanFrom(privKey, publicKey, stanzas, i + 1)
         IN  IF ~fileKey.ok
             THEN [res |-> rest.res, tried |-> <<i>> \o rest.tried]
             ELSE [res |-> FileKey(fileKey.val), tried |-> <<i>>]

ScanStanzas(privKey, publicKey, stanzas) == ScanFrom(privKey, publicKey, stanzas, 1)

\* the first loop without its test of the type
HasAnyStanza(stanzas) == \E i \in 1..Len(stanzas) : TRUE

\* the first loop of Unwrap (main.go:199-205)
HasX25519(stanzas) == \E i \in 1..Len(stanzas) : stanzas[i].Type = "X25519"

(***************************************************************************)
(* BIP39 (github.com/tyler-smith/go-bip39), scaled: a word list of 8 words *)
(* (3 bits a word) for 2048; a phrase of n words, n in ValidWordCounts,    *)
(* carries 2n bits of entropy followed by n checksum bits.  The full       *)
(* phrase (24 words, 32 bytes of entropy) is the one of KeyLen words; the  *)
(* shorter valid phrase stands for the 12- to 21-word phrases.  A phrase   *)
(* is its words (8 = a word outside the list) and whether white space      *)
(* surrounds them.                                                         *)
(***************************************************************************)
Wordlist == 0..7
ValidWordCounts == 1..KeyLen

\* an entropy of n units (n * 16 bytes in the library): 2n bits
Entropy(n, v) == [len |-> n, val |-> v]

\* the first n bits of sha256(entropy)
Checksum(ent) == (ent.val * 5 + ent.len + 2) % Pow2(ent.len)

RECURSIVE WordsValue(_)
WordsValue(ws) ==
    IF ws = <<>> THEN 0 ELSE Head(ws) * Pow2(3 * (Len(ws) - 1)) + WordsValue(Tail(ws))

\* bip39.NewMnemonic
NewMnemonic(ent) ==
    LET n == ent.len
        v == ent.val * Pow2(n) + Checksum(ent)
    IN  [pad |-> FALSE,
         words |-> BuildSeq([i \in 1..n |-> (v \div Pow2(3 * (n - i))) % 8], n)]

\* bip39.EntropyFromMnemonic: splits on white space, then checks the word
\* count, the words and the checksum
EntropyFromMnemonic(mnemonic) ==
    LET ws == mnemonic.words
        n == Len(ws)
        v == WordsValue(ws)
        ent == Entropy(n, v \div Pow2(n))
    IN  IF n \notin ValidWordCounts THEN Failed
        ELSE IF \E i \in 1..n : ws[i] \notin Wordlist THEN Failed
        ELSE IF v % Pow2(n) # Checksum(ent) THEN Failed
        ELSE Ok(ent)

\* bip39.IsMnemonicValid
IsMnemonicValid(mnemonic) == EntropyFromMnemonic(mnemonic).ok

\* strings.TrimSpace
TrimSpace(mnemonic) == [mnemonic EXCEPT !.pad = FALSE]

(***************************************************************************)
(* Key derivation.                                                         *)
(***************************************************************************)
\* sha512.Sum512(entropy)[:32]
Sha512Prefix(ent) ==
    BuildSeq([i \in 1..KeyLen |->
                 (ent.val * (62 * i + 27) + ent.len * 57 + 101 * i) % 256], KeyLen)

NoKeys == [ok |-> FALSE, priv |-> <<>>, pub |-> <<>>]

\* a derivation that mixes the number of finished calls into the scalar
deriveX25519Stateful(mnemonic) ==
    LET entropy == EntropyFromMnemonic(mnemonic)
        x25519Private == Clamp(Sha512Prefix(entropy.val))
        pubBytes == X25519(x25519Private, Basepoint)
        held == Cardinality({p \in DOMAIN call : call[p].pc = "done"})
    IN  IF ~entropy.ok THEN NoKeys
        ELSE IF ~pubBytes.ok THEN NoKeys
        ELSE [ok |-> TRUE,
              priv |-> [x25519Private EXCEPT ![1] = (@ + 8 * held) % 256],
              pub |-> pubBytes.val]

\* deriveX25519FromMnemonic
deriveX25519FromMnemonic(mnemonic) ==
    LET entropy == EntropyFromMnemonic(mnemonic)
        x25519Private == Clamp(Sha512Prefix(entropy.val))
        pubBytes == X25519(x25519Private, Basepoint)
    IN  IF ~entropy.ok THEN NoKeys
        ELSE IF ~pubBytes.ok THEN NoKeys
        ELSE [ok |-> TRUE, priv |-> x25519Private, pub |-> pubBytes.val]

\* bytesEqual without its loop
bytesEqualLengths(a, b) == Len(a) = Len(b)

\* bytesEqual
bytesEqual(a, b) == Len(a) = Len(b) /\ \A i \in 1..Len(a) : a[i] = b[i]

(***************************************************************************)
(* The key cache (the Linux user keyring).                                 *)
(***************************************************************************)
\* time.ParseDuration on the values the model sets, in milliseconds
ParseDuration(v) ==
    CASE v = "10m" -> [ok |-> TRUE, d |-> 600000]
      [] v = "30s" -> [ok |-> TRUE, d |-> 30000]
      [] v = "500ms" -> [ok |-> TRUE, d |-> 500]
      [] OTHER -> [ok |-> FALSE, d |-> 0]

\* cacheTTL treating a value that does not parse as "0"
cacheTTLStrict(v) ==
    IF v = "" THEN 600000
    ELSE IF v = "0" THEN 0
    ELSE LET d == ParseDuration(v)
         IN  IF ~d.ok THEN 0 ELSE d.d

\* cacheTTL, in milliseconds
cacheTTL(v) ==
    IF v = "" THEN 600000
    ELSE IF v = "0" THEN 0
    ELSE LET d == ParseDuration(v)
         IN  IF ~d.ok THEN 600000 ELSE d.d

HexDigit(v) == IF v < 10 THEN 48 + v ELSE 97 + (v - 10)

HexVal(c) ==
    IF c \in 48..57 THEN c - 48
    ELSE IF c \in 97..102 THEN c - 87
    ELSE IF c \in 65..70 THEN c - 55
    ELSE 16

\* fmt.Sprintf("%x", bytes)
HexEncode(bs) ==
    BuildSeq([i \in 1..(2 * Len(bs)) |->
                 IF i % 2 = 1 THEN HexDigit(bs[(i + 1) \div 2] \div 16)
                 ELSE HexDigit(bs[i \div 2] % 16)], 2 * Len(bs))

\* hex.DecodeString
HexDecode(str) ==
    IF Len(str) % 2 = 1 THEN Failed
    ELSE IF \E i \in 1..Len(str) : HexVal(str[i]) = 16 THEN Failed
    ELSE Ok(BuildSeq([i \in 1..(Len(str) \div 2) |->
                         16 * HexVal(str[2 * i - 1]) + HexVal(str[2 * i])],
                     Len(str) \div 2))

\* a cache name that leaves the public key out
FingerprintPrefixOnly(publicKey) == <<"age-plugin-bip39:", <<>>>>

\* cacheKeyName in Unwrap (main.go:210)
Fingerprint(publicKey) == <<"age-plugin-bip39:", HexEncode(publicKey)>>

BufLen == 256      \* buf := make([]byte, 256)

NoEntry == [present |-> FALSE, payload |-> <<>>, timeout |-> 0]
Entry(payload, seconds) == [present |-> TRUE, payload |-> payload, timeout |-> seconds]

NoCachedKey == [kind |-> "nil", key |-> <<>>]

\* getCachedKey(name) on keyring st with AGE_PLUGIN_BIP39_CACHE = v; fault
\* is the system call that fails in this call, if any.  KEYCTL_READ
\* returns the payload's full length whatever the buffer holds, and
\* buf[:n] beyond the buffer's capacity is a run-time panic.
getCachedKey(name, st, v, fault) ==
    IF cacheTTL(v) = 0 THEN NoCachedKey
    ELSE IF fault = "search" \/ ~st[name].present THEN NoCachedKey
    ELSE LET n == Len(st[name].payload)
             key == HexDecode(st[name].payload)
         IN  IF fault = "read" \/ n <= 0 THEN NoCachedKey
             ELSE IF n > BufLen THEN [kind |-> "panic", key |-> <<>>]
             ELSE IF ~key.ok \/ Len(key.val) # KeyLen THEN NoCachedKey
             ELSE [kind |-> "key", key |-> key.val]

\* cacheKey without its test of the TTL
cacheKeyAlways(name, key, st, v, fault) ==
    IF fault = "add" THEN st
    ELSE [st EXCEPT ![name] = Entry(HexEncode(key), cacheTTL(v) \div 1000)]

\* cacheKey(name, key): the keyring after the call
cacheKey(name, key, st, v, fault) ==
    LET ttl == cacheTTL(v)
        payload == HexEncode(key)
    IN  IF ttl = 0 THEN st
        ELSE IF fault = "add" THEN st
        ELSE [st EXCEPT ![name] = Entry(payload, ttl \div 1000)]

(***************************************************************************)
(* The inputs of the model.                                                *)
(***************************************************************************)
\* the full phrase of the n-th entropy, and the key pair derived from it
Entropies == 0..(NumEntropies - 1)
PhraseOf(n) == NewMnemonic(Entropy(KeyLen, n))
KeyPairs == [n \in Entropies |-> deriveX25519FromMnemonic(PhraseOf(n))]
KeyPair(n) == KeyPairs[n]

\* the identity the plugin is started with (HandleIdentity, main.go:61-66):
\* the key pair of entropy 0; the other entropies are other people's
IdentityEntropies == {0}
IdentityKeys == {KeyPair(n).pub : n \in IdentityEntropies}

FileKeyOf(i) == BuildSeq([j \in 1..2 |-> (83 * i + 57 * j) % 256], 1 + (i % 2))
FileKeys == {FileKeyOf(i) : i \in 1..NumFileKeys}

EphemeralOf(i) == <<(37 * i + 11) % 256, (151 * i + 3) % 256>>
Ephemerals == {EphemeralOf(i) : i \in 1..NumEphemerals}

\* what si.plugin.RequestValue may hand back: an error (the user cancels,
\* the host fails) or a string
PromptFailed == [ok |-> FALSE, phrase |-> [pad |-> FALSE, words |-> <<>>]]
Typed(m) == [ok |-> TRUE, phrase |-> m]
BadChecksumPhrase == [PhraseOf(0) EXCEPT !.words[KeyLen] = (@ + 1) % 8]
UnknownWordPhrase == [PhraseOf(0) EXCEPT !.words[1] = 8]
ShortPhrase == NewMnemonic(Entropy(1, 2))
PaddedPhrase == [PhraseOf(1) EXCEPT !.pad = TRUE]
PromptAnswers ==
    {PromptFailed} \cup {Typed(PhraseOf(n)) : n \in Entropies}
    \cup {Typed(BadChecksumPhrase), Typed(UnknownWordPhrase),
          Typed(ShortPhrase), Typed(PaddedPhrase)}

\* the stanza Recipient.Wrap makes for the n-th key pair
Wrapped(n, k, e) == wrapX25519(KeyPair(n).pub, FileKeyOf(k), EphemeralOf(e)).val[1]

\* stanzas a file header may hold: for the identity, for another recipient,
\* of another type,
\* and malformed in each way unwrapX25519 tells apart
OtherType == [Wrapped(0, 1, 1) EXCEPT !.Type = "scrypt"]
TwoArgs == [Wrapped(0, 1, 1) EXCEPT !.Args = @ \o @]
Undecodable == [Wrapped(0, 1, 1) EXCEPT !.Args[1][1] = 42]
ShortEphemeral == [Wrapped(0, 1, 1) EXCEPT !.Args[1] = B64Encode(<<7>>)]
LowOrder == [Wrapped(0, 1, 1) EXCEPT !.Args[1] = B64Encode(<<0, 0>>)]
HeaderStanzas ==
    {Wrapped(0, 1, 1), Wrapped(0, 2, 2), Wrapped(1, 1, 1),
     OtherType, TwoArgs, Undecodable, ShortEphemeral, LowOrder}

RECURSIVE SeqsUpTo(_, _)
SeqsUpTo(S, n) ==
    IF n = 0 THEN {<<>>}
    ELSE LET shorter == SeqsUpTo(S, n - 1)
         IN  shorter \cup {Append(q, x) : q \in shorter, x \in S}

StanzaLists == SeqsUpTo(HeaderStanzas, MaxStanzas)

\* AGE_PLUGIN_BIP39_CACHE: unset (caching on) and "0" (caching off)
EnvValues == {"", "0"}

Names == {Fingerprint(k) : k \in IdentityKeys}

\* n times the character c
RECURSIVE Repeat(_, _)
Repeat(c, n) ==
    IF n = 0 THEN <<>>
    ELSE IF n % 2 = 1 THEN <<c>> \o Repeat(c, n - 1)
    ELSE LET half == Repeat(c, n \div 2) IN half \o half

\* payloads another program of the same user may leave under a name: empty,
\* not hexadecimal, hexadecimal of another length, longer than the read
\* buffer, and well-formed (in upper case)
ForeignPayloads ==
    {<<>>, <<122, 122, 122, 122>>, <<49, 50>>, <<52, 48, 67, 51>>,
     Repeat(48, BufLen + 2)}

(***************************************************************************)
(* Bip39Identity.Unwrap, one call per process.  log lists the calls the    *)
(* body has made so far, in order.                                         *)
(***************************************************************************)
Pending == Error("pending")
NoPhrase == [pad |-> FALSE, words |-> <<>>]
Idle ==
    [pc |-> "idle", publicKey |-> <<>>, stanzas |-> <<>>,
     cached |-> NoCachedKey,    \* what getCachedKey returned
     asked |-> "no",            \* RequestValue: "no", "failed" or "typed"
     mnemonic |-> NoPhrase,     \* the phrase typed, trimmed
     privKey |-> <<>>, res |-> Pending, log |-> <<>>]

Did(op, arg) == [op |-> op, arg |-> arg]
Tries(tried) ==
    BuildSeq([i \in 1..Len(tried) |-> Did("unwrapX25519", tried[i])], Len(tried))

\* the call returns res
Returned(c, res, log) == [c EXCEPT !.pc = "done", !.res = res, !.log = log]

\* main.go:237-248 with privKey in hand
Scanned(c, privKey, log) ==
    LET scan == ScanStanzas(privKey, c.publicKey, c.stanzas)
    IN  Returned([c EXCEPT !.privKey = privKey], scan.res, log \o Tries(scan.tried))

\* Unwrap reading the cache before it looks at the stanza types
UnwrapEnteredCacheFirst(c, st, v, fault) ==
    LET cached == getCachedKey(Fingerprint(c.publicKey), st, v, fault)
        c1 == [c EXCEPT !.cached = cached]
        log == <<Did("getCachedKey", 0)>>
    IN  IF cached.kind = "panic" THEN Returned(c1, Error("panic"), log)
        ELSE IF ~HasX25519(c.stanzas) THEN Returned(c1, ErrIncorrectIdentity, log)
        ELSE IF cached.kind = "key" THEN Scanned(c1, cached.key, log)
        ELSE [c1 EXCEPT !.pc = "prompt",
                        !.log = log \o <<Did("RequestValue", 0)>>]

\* Unwrap prompting whatever the cache returned
UnwrapEnteredPrompting(c, st, v, fault) ==
    IF ~HasX25519(c.stanzas) THEN Returned(c, ErrIncorrectIdentity, <<>>)
    ELSE LET cached == getCachedKey(Fingerprint(c.publicKey), st, v, fault)
             c1 == [c EXCEPT !.cached = cached]
             log == <<Did("getCachedKey", 0)>>
         IN  IF cached.kind = "panic" THEN Returned(c1, Error("panic"), log)
             ELSE [c1 EXCEPT !.pc = "prompt",
                             !.log = log \o <<Did("RequestValue", 0)>>]

\* main.go:198-212 and, on a cache hit, 237-248
UnwrapEntered(c, st, v, fault) ==
    IF ~HasX25519(c.stanzas) THEN Returned(c, ErrIncorrectIdentity, <<>>)
    ELSE LET cached == getCachedKey(Fingerprint(c.publicKey), st, v, fault)
             c1 == [c EXCEPT !.cached = cached]
             log == <<Did("getCachedKey", 0)>>
         IN  IF cached.kind = "panic" THEN Returned(c1, Error("panic"), log)
             ELSE IF cached.kind = "key" THEN Scanned(c1, cached.key, log)
             ELSE [c1 EXCEPT !.pc = "prompt",
                             !.log = log \o <<Did("RequestValue", 0)>>]

\* the prompt step without bip39.IsMnemonicValid
PromptedUnvalidated(c, answer) ==
    LET mnemonic == TrimSpace(answer.phrase)
        derived == deriveX25519FromMnemonic(mnemonic)
        c1 == [c EXCEPT !.asked = "typed", !.mnemonic = mnemonic]
        log2 == c.log \o <<Did("deriveX25519FromMnemonic", 0)>>
        log3 == log2 \o <<Did("bytesEqual", 0)>>
    IN  IF ~answer.ok
        THEN Returned([c EXCEPT !.asked = "failed"], Error("RequestFailed"), c.log)
        ELSE IF ~derived.ok THEN Returned(c1, Error("DerivationFailed"), log2)
        ELSE IF ~bytesEqual(derived.pub, c.publicKey)
             THEN Returned(c1, Error("Mismatch"), log3)
        ELSE [c1 EXCEPT !.pc = "cache", !.privKey = derived.priv, !.log = log3]

\* the prompt step asking again when RequestValue fails
PromptedAgain(c, answer) ==
    LET mnemonic == TrimSpace(answer.phrase)
        derived == deriveX25519FromMnemonic(mnemonic)
        c1 == [c EXCEPT !.asked = "typed", !.mnemonic = mnemonic]
        log1 == c.log \o <<Did("IsMnemonicValid", 0)>>
        log2 == log1 \o <<Did("deriveX25519FromMnemonic", 0)>>
        log3 == log2 \o <<Did("bytesEqual", 0)>>
    IN  IF ~answer.ok
        THEN [c EXCEPT !.asked = "failed", !.log = @ \o <<Did("RequestValue", 0)>>]
        ELSE IF ~IsMnemonicValid(mnemonic)
             THEN Returned(c1, Error("InvalidMnemonic"), log1)
        ELSE IF ~derived.ok THEN Returned(c1, Error("DerivationFailed"), log2)
        ELSE IF ~bytesEqual(derived.pub, c.publicKey)
             THEN Returned(c1, Error("Mismatch"), log3)
        ELSE [c1 EXCEPT !.pc = "cache", !.privKey = derived.priv, !.log = log3]

\* the prompt step without the comparison of the derived public key
PromptedUncompared(c, answer) ==
    LET mnemonic == TrimSpace(answer.phrase)
        derived == deriveX25519FromMnemonic(mnemonic)
        c1 == [c EXCEPT !.asked = "typed", !.mnemonic = mnemonic]
        log1 == c.log \o <<Did("IsMnemonicValid", 0)>>
        log2 == log1 \o <<Did("deriveX25519FromMnemonic", 0)>>
    IN  IF ~answer.ok
        THEN Returned([c EXCEPT !.asked = "failed"], Error("RequestFailed"), c.log)
        ELSE IF ~IsMnemonicValid(mnemonic)
             THEN Returned(c1, Error("InvalidMnemonic"), log1)
        ELSE IF ~derived.ok THEN Returned(c1, Error("DerivationFailed"), log2)
        ELSE [c1 EXCEPT !.pc = "cache", !.privKey = derived.priv, !.log = log2]

\* main.go:214-232: RequestValue has returned answer
Prompted(c, answer) ==
    LET mnemonic == TrimSpace(answer.phrase)
        derived == deriveX25519FromMnemonic(mnemonic)
        c1 == [c EXCEPT !.asked = "typed", !.mnemonic = mnemonic]
        log1 == c.log \o <<Did("IsMnemonicValid", 0)>>
        log2 == log1 \o <<Did("deriveX25519FromMnemonic", 0)>>
        log3 == log2 \o <<Did("bytesEqual", 0)>>
    IN  IF ~answer.ok
        THEN Returned([c EXCEPT !.asked = "failed"], Error("RequestFailed"), c.log)
        ELSE IF ~IsMnemonicValid(mnemonic)
             THEN Returned(c1, Error("InvalidMnemonic"), log1)
        ELSE IF ~derived.ok THEN Returned(c1, Error("DerivationFailed"), log2)
        ELSE IF ~bytesEqual(derived.pub, c.publicKey)
             THEN Returned(c1, Error("Mismatch"), log3)
        ELSE [c1 EXCEPT !.pc = "cache", !.privKey = derived.priv, !.log = log3]

\* the step reading the entry back after writing it
CachedReadBack(c) ==
    Scanned(c, c.privKey, c.log \o <<Did("cacheKey", 0), Did("getCachedKey", 0)>>)

\* main.go:234-248: cacheKey, then the stanza loop
Cached(c) == Scanned(c, c.privKey, c.log \o <<Did("cacheKey", 0)>>)

Procs == DOMAIN call

UnwrapBegin(p) ==
    /\ call[p].pc = "idle"
    /\ \E k \in IdentityKeys, ss \in StanzaLists, fault \in {"none", "search", "read"} :
          call' = [call EXCEPT ![p] =
                      UnwrapEntered([Idle EXCEPT !.publicKey = k, !.stanzas = ss],
                                    store, env, fault)]
    /\ UNCHANGED <<env, store, wire, sent, got, clock, wraps, clamped, wizard>>

PromptReturns(p) ==
    /\ call[p].pc = "prompt"
    /\ \E answer \in PromptAnswers :
          call' = [call EXCEPT ![p] = Prompted(call[p], answer)]
    /\ UNCHANGED <<env, store, wire, sent, got, clock, wraps, clamped, wizard>>

\* the step returning an error when the write to the keyring fails
CacheAndScanSurfacing(p) ==
    /\ call[p].pc = "cache"
    /\ \E fault \in {"none", "add"} :
          /\ store' = cacheKey(Fingerprint(call[p].publicKey), call[p].privKey,
                               store, env, fault)
          /\ call' = [call EXCEPT ![p] =
                         IF fault = "add"
                         THEN Returned(call[p], Error("cacheKey"),
                                       call[p].log \o <<Did("cacheKey", 0)>>)
                         ELSE Cached(call[p])]
    /\ UNCHANGED <<env, wire, sent, got, clock, wraps, clamped, wizard>>

CacheAndScan(p) ==
    /\ call[p].pc = "cache"
    /\ \E fault \in {"none", "add"} :
          store' = cacheKey(Fingerprint(call[p].publicKey), call[p].privKey,
                            store, env, fault)
    /\ call' = [call EXCEPT ![p] = Cached(call[p])]
    /\ UNCHANGED <<env, wire, sent, got, clock, wraps, clamped, wizard>>

UnwrapReturn(p) ==
    /\ call[p].pc = "done"
    /\ call' = [call EXCEPT ![p] = Idle]
    /\ UNCHANGED <<env, store, wire, sent, got, clock, wraps, clamped, wizard>>

\* the kernel drops an entry whose timeout has run out
KeyExpires(name) ==
    /\ store[name].present
    /\ store[name].timeout > 0
    /\ store' = [store EXCEPT ![name] = NoEntry]
    /\ UNCHANGED <<env, call, wire, sent, got, clock, wraps, clamped, wizard>>

\* another program of the same user writes the keyring
ForeignWrite(name) ==
    /\ \E payload \in ForeignPayloads :
          store' = [store EXCEPT ![name] = Entry(payload, 0)]
    /\ UNCHANGED <<env, call, wire, sent, got, clock, wraps, clamped, wizard>>

(***************************************************************************)
(* The phrase wizard of the keygen command (wordgrid.go), scaled: a grid   *)
(* of gridCols x gridRows = 4 cells for 3 x 8 = 24, and a generated phrase *)
(* of gridTotal words.  A string is a record: its words (8 = a word        *)
(* outside the list), whether it has upper-case letters and whether white  *)
(* space surrounds it; the empty string has no words.  A key that reaches  *)
(* a text input leaves in it any of the texts a user may have typed by     *)
(* then.  tea.Quit ends the program: no key event follows it.              *)
(***************************************************************************)
gridCols == 2
gridRows == 2
gridTotal == gridCols * gridRows

Text(pad, upper, words) == [pad |-> pad, upper |-> upper, words |-> words]

\* strings.ToLower
ToLower(s) == [s EXCEPT !.upper = FALSE]

\* bip39.IsMnemonicValid on the scale of the grid: a phrase of up to
\* gridTotal words of the list whose last bits are the checksum
IsGridMnemonicValid(mn) ==
    LET ws == mn.words
        n == Len(ws)
        v == WordsValue(ws)
    IN  /\ n \in 1..gridTotal
        /\ \A i \in 1..n : ws[i] \in Wordlist
        /\ v % Pow2(n) = Checksum(Entropy(n, v \div Pow2(n)))

\* bip39.NewEntropy, bip39.NewMnemonic and strings.Split: the words of the
\* i-th phrase the random source may give
GeneratedOf(i) ==
    LET ws == NewMnemonic(Entropy(gridTotal, (89 * i + 37) % 256)).words
    IN  BuildSeq([j \in 1..gridTotal |-> Text(FALSE, FALSE, <<ws[j]>>)], gridTotal)

newWordGridModel(generated) ==
    [inputs |-> BuildSeq([i \in 1..gridTotal |->
                             [value |-> Text(FALSE, FALSE, <<>>),
                              placeholder |-> IF i <= Len(generated) THEN generated[i]
                                              ELSE Text(FALSE, FALSE, <<>>)]],
                         gridTotal),
     focused |-> 0, lastGridFocus |-> 0, phase |-> "input",
     generated |-> generated, verifyPos |-> <<>>, editIdx |-> 0,
     done |-> FALSE, aborted |-> FALSE, err |-> <<>>]

effectiveWords(m) ==
    BuildSeq([i \in 1..gridTotal |->
                 LET v == TrimSpace(m.inputs[i].value)
                 IN  IF v.words # <<>> THEN ToLower(v)
                     ELSE IF i <= Len(m.generated) THEN m.generated[i]
                     ELSE Text(FALSE, FALSE, <<>>)], gridTotal)

RECURSIVE JoinWords(_)
JoinWords(ws) == IF ws = <<>> THEN <<>> ELSE Head(ws).words \o JoinWords(Tail(ws))

\* the non-empty effective words joined by single spaces
mnemonic(m) == [pad |-> FALSE, words |-> JoinWords(effectiveWords(m))]

\* anyUserEdited comparing the raw value with the empty string
anyUserEditedUntrimmed(m) ==
    \E i \in 1..gridTotal : m.inputs[i].value # Text(FALSE, FALSE, <<>>)

anyUserEdited(m) ==
    \E i \in 1..gridTotal : TrimSpace(m.inputs[i].value).words # <<>>

\* every effective word is non-empty and bip39.GetWordIndex finds it
allWordsValid(m) ==
    \A i \in 1..gridTotal :
        LET w == effectiveWords(m)[i]
        IN  Len(w.words) = 1 /\ w.words[1] \in Wordlist /\ ~w.upper /\ ~w.pad

\* isEditable without its test of the positions
isEditableAlways(m, idx) == TRUE

isEditable(m, idx) ==
    \/ m.phase = "input"
    \/ \E k \in 1..Len(m.verifyPos) : m.verifyPos[k] = idx

syncVerifyFocus(m) ==
    IF m.editIdx < Len(m.verifyPos)
    THEN [m EXCEPT !.focused = m.verifyPos[m.editIdx + 1]]
    ELSE [m EXCEPT !.focused = -1]

\* pickTwoRandomPositions without its loop
pickTwoRandomPositionsOnce(n) ==
    {Failed} \cup {Ok(p) : p \in (0..(n - 1)) \X (0..(n - 1))}

\* what pickTwoRandomPositions(n) may return
pickTwoRandomPositions(n) ==
    {Failed} \cup {Ok(p) : p \in {q \in (0..(n - 1)) \X (0..(n - 1)) : q[1] # q[2]}}

\* draw: what pickTwoRandomPositions returns in this call
handleContinue(m, draw) ==
    IF ~allWordsValid(m) THEN [m EXCEPT !.err = <<"words">>]
    ELSE IF anyUserEdited(m)
         THEN IF ~IsGridMnemonicValid(mnemonic(m)) THEN [m EXCEPT !.err = <<"checksum">>]
              ELSE [m EXCEPT !.done = TRUE]
    ELSE IF ~draw.ok THEN [m EXCEPT !.err = <<"random">>]
    ELSE LET lo == IF draw.val[1] <= draw.val[2] THEN draw.val[1] ELSE draw.val[2]
             hi == IF draw.val[1] <= draw.val[2] THEN draw.val[2] ELSE draw.val[1]
             cleared == [value |-> Text(FALSE, FALSE, <<>>),
                         placeholder |-> Text(FALSE, FALSE, <<>>)]
         IN  [m EXCEPT !.phase = "verify", !.verifyPos = <<lo, hi>>,
                       !.editIdx = 0, !.focused = lo, !.err = <<>>,
                       !.inputs = [[@ EXCEPT ![lo + 1] = cleared]
                                      EXCEPT ![hi + 1] = cleared]]

\* words: what bip39.NewEntropy and bip39.NewMnemonic give in this call
regenerate(m, words) ==
    IF ~words.ok THEN [m EXCEPT !.err = <<"entropy">>]
    ELSE [m EXCEPT !.generated = words.val,
                   !.inputs = BuildSeq([i \in 1..gridTotal |->
                                  [value |-> Text(FALSE, FALSE, <<>>),
                                   placeholder |-> IF i <= Len(words.val) THEN words.val[i]
                                                   ELSE Text(FALSE, FALSE, <<>>)]],
                                  gridTotal),
                   !.focused = 0, !.err = <<>>]

handleEnter(m, draw, words) ==
    IF m.phase = "input"
    THEN IF m.focused = gridTotal THEN regenerate(m, words)
         ELSE IF m.focused = gridTotal + 1 THEN handleContinue(m, draw)
         ELSE [m EXCEPT !.lastGridFocus = m.focused, !.focused = gridTotal + 1]
    ELSE IF m.editIdx = Len(m.verifyPos)
    THEN [m EXCEPT !.inputs =
                       BuildSeq([i \in 1..gridTotal |->
                           IF \E k \in 1..Len(m.verifyPos) : m.verifyPos[k] = i - 1
                           THEN [value |-> Text(FALSE, FALSE, <<>>),
                                 placeholder |-> m.generated[i]]
                           ELSE m.inputs[i]], gridTotal),
                   !.phase = "input", !.verifyPos = <<>>, !.editIdx = 0,
                   !.focused = 0, !.err = <<>>]
    ELSE IF m.editIdx = Len(m.verifyPos) + 1
    THEN LET wrong == {k \in 1..Len(m.verifyPos) :
                          ToLower(TrimSpace(m.inputs[m.verifyPos[k] + 1].value))
                          # m.generated[m.verifyPos[k] + 1]}
             first == CHOOSE k \in wrong : \A j \in wrong : k <= j
         IN  IF wrong # {} THEN [m EXCEPT !.err = <<"incorrect", m.verifyPos[first] + 1>>]
             ELSE [m EXCEPT !.done = TRUE]
    ELSE syncVerifyFocus([m EXCEPT !.editIdx = Len(m.verifyPos) + 1])

\* Update for a tea.KeyMsg; msg.text is what a key that reaches the focused
\* text input leaves in it
Update(m, msg) ==
    LET items == Len(m.verifyPos) + 2
        inGrid == m.focused >= 0 /\ m.focused < gridTotal
        forwarded ==
            IF inGrid
            THEN [m EXCEPT !.err = <<>>,
                           !.inputs[m.focused + 1].value =
                               IF msg.key = "rune" THEN msg.text ELSE @]
            ELSE m
    IN  CASE msg.key = "esc" -> [m EXCEPT !.aborted = TRUE]
          [] msg.key = "tab" ->
                IF m.phase = "verify"
                THEN syncVerifyFocus([m EXCEPT !.editIdx = (m.editIdx + 1) % items])
                ELSE IF inGrid
                THEN [m EXCEPT !.lastGridFocus = m.focused, !.focused = gridTotal]
                ELSE IF m.focused = gridTotal THEN [m EXCEPT !.focused = gridTotal + 1]
                ELSE [m EXCEPT !.focused = m.lastGridFocus]
          [] msg.key = "shift+tab" ->
                IF m.phase = "verify"
                THEN syncVerifyFocus([m EXCEPT !.editIdx = (m.editIdx - 1 + items) % items])
                ELSE IF inGrid
                THEN [m EXCEPT !.lastGridFocus = m.focused, !.focused = gridTotal + 1]
                ELSE IF m.focused = gridTotal + 1 THEN [m EXCEPT !.focused = gridTotal]
                ELSE [m EXCEPT !.focused = m.lastGridFocus]
          [] msg.key = "up" ->
                IF m.phase = "input" /\ inGrid /\ m.focused % gridRows > 0
                THEN [m EXCEPT !.focused = @ - 1]
                ELSE forwarded
          [] msg.key = "down" ->
                IF m.phase = "input" /\ inGrid /\ m.focused % gridRows < gridRows - 1
                THEN [m EXCEPT !.focused = @ + 1]
                ELSE forwarded
          [] msg.key = "left" ->
                IF m.phase = "input" /\ m.focused >= gridRows /\ m.focused < gridTotal
                THEN [m EXCEPT !.focused = @ - gridRows]
                ELSE IF m.phase = "verify" /\ m.editIdx = Len(m.verifyPos) + 1
                THEN syncVerifyFocus([m EXCEPT !.editIdx = @ - 1])
                ELSE forwarded
          [] msg.key = "right" ->
                IF m.phase = "input" /\ m.focused >= 0 /\ m.focused + gridRows < gridTotal
                THEN [m EXCEPT !.focused = @ + gridRows]
                ELSE IF m.phase = "verify" /\ m.editIdx = Len(m.verifyPos)
                THEN syncVerifyFocus([m EXCEPT !.editIdx = @ + 1])
                ELSE forwarded
          [] msg.key = "enter" -> handleEnter(m, msg.draw, msg.words)
          [] OTHER -> forwarded

\* what View writes: the cells (a cell that is not editable shows the fixed
\* mask, an input shows its value, or its placeholder while the value is
\* empty), the error or the description of the phase, the cell whose number
\* is highlighted, and the two buttons with the one that has the focus
View(m) ==
    [cells |-> BuildSeq([i \in 1..gridTotal |->
                  IF ~isEditable(m, i - 1)
                  THEN [masked |-> TRUE, text |-> Text(FALSE, FALSE, <<>>)]
                  ELSE [masked |-> FALSE,
                        text |-> IF m.inputs[i].value = Text(FALSE, FALSE, <<>>)
                                 THEN m.inputs[i].placeholder
                                 ELSE m.inputs[i].value]], gridTotal),
     line |-> IF m.err # <<>> THEN m.err ELSE <<m.phase>>,
     focused |-> m.focused,
     buttons |-> IF m.phase = "verify"
                 THEN <<"Back", m.editIdx = Len(m.verifyPos),
                        "Verify", m.editIdx = Len(m.verifyPos) + 1>>
                 ELSE <<"Regenerate", m.focused = gridTotal,
                        "Continue", m.focused = gridTotal + 1>>]

\* runWordGrid once the program has ended with final model m
runWordGrid(m) == IF m.aborted THEN Failed ELSE Ok(mnemonic(m))

\* the keygen command is not running
NoWizard == <<>>

NoScalar == [h |-> <<>>, k |-> <<>>, n |-> 0]
NotSent == [ok |-> FALSE, n |-> 0, fileKey |-> <<>>, rnd |-> <<>>, flipped |-> "none"]
NotGot == [ok |-> FALSE, n |-> 0, res |-> Pending, tried |-> <<>>]

Init ==
    /\ env \in EnvValues
    /\ call = [p \in {1} |-> Idle]
    /\ store = [name \in Names |-> NoEntry]
    /\ wire = <<>>
    /\ sent = NotSent
    /\ got = NotGot
    /\ clock = 0
    /\ wraps = {}
    /\ clamped = NoScalar
    /\ wizard = NoWizard

Next ==
    \/ \E p \in Procs : UnwrapBegin(p)
    \/ \E p \in Procs : PromptReturns(p)
    \/ \E p \in Procs : CacheAndScan(p)
    \/ \E p \in Procs : UnwrapReturn(p)
    \/ \E name \in Names : KeyExpires(name)
    \/ \E name \in Names : ForeignWrite(name)

Spec == Init /\ [][Next]_vars

(***************************************************************************)
(* The stanza codec on its own: Recipient.Wrap for any of the key pairs,   *)
(* one bit of the stanza changed in transit, and the stanza loop of Unwrap *)
(* run with the key pair of any of the entropies in hand.                  *)
(***************************************************************************)
CodecWrap ==
    /\ ~sent.ok
    /\ \E n \in Entropies, fileKey \in FileKeys, rnd \in Ephemerals :
          LET stanzas == RecipientWrap(KeyPair(n).pub, fileKey, rnd)
          IN  /\ stanzas.ok
              /\ wire' = stanzas.val
              /\ sent' = [ok |-> TRUE, n |-> n, fileKey |-> fileKey, rnd |-> rnd,
                          flipped |-> "none"]
    /\ got' = NotGot
    /\ UNCHANGED <<env, store, call, clock, wraps, clamped, wizard>>

\* one bit of the ephemeral-key argument changes
TamperArg ==
    /\ sent.ok /\ sent.flipped = "none" /\ ~got.ok
    /\ \E c \in 1..Len(wire[1].Args[1]), b \in 0..7 :
          wire' = [wire EXCEPT ![1].Args[1][c] = FlipBit(@, b)]
    /\ sent' = [sent EXCEPT !.flipped = "arg"]
    /\ UNCHANGED <<env, store, call, got, clock, wraps, clamped, wizard>>

\* one bit of the body changes: of the ciphertext, or of the tag
TamperBody ==
    /\ sent.ok /\ sent.flipped = "none" /\ ~got.ok
    /\ \E b \in 0..7 :
          \/ \E i \in 1..Len(wire[1].Body.ct) :
                wire' = [wire EXCEPT ![1].Body.ct[i] = FlipBit(@, b)]
          \/ wire' = [wire EXCEPT ![1].Body.tag[1].mask = FlipBit(@, b)]
    /\ sent' = [sent EXCEPT !.flipped = "body"]
    /\ UNCHANGED <<env, store, call, got, clock, wraps, clamped, wizard>>

CodecUnwrap ==
    /\ sent.ok /\ ~got.ok
    /\ \E n \in Entropies :
          LET scan == ScanStanzas(KeyPair(n).priv, KeyPair(n).pub, wire)
          IN  got' = [ok |-> TRUE, n |-> n, res |-> scan.res, tried |-> scan.tried]
    /\ UNCHANGED <<env, store, call, wire, sent, clock, wraps, clamped, wizard>>

InitCodec == Init /\ env = ""

NextCodec == CodecWrap \/ TamperArg \/ TamperBody \/ CodecUnwrap

SpecCodec == InitCodec /\ [][NextCodec]_vars

(***************************************************************************)
(* The key cache in time.  clock is the time since cacheKey last wrote the *)
(* keyring; time passes in jumps to the instants of Instants, and the      *)
(* kernel drops an entry when the timeout set on it has run out.  A        *)
(* timeout of 0 is no timeout (KEYCTL_SET_TIMEOUT with 0 clears it).       *)
(***************************************************************************)
\* AGE_PLUGIN_BIP39_CACHE: unset, "0", durations, and a string that is none
TimedEnvValues == {"", "0", "30s", "500ms", "junk"}
Instants == {500, 1000, 30000, 600000}
ShortStanzaLists == {<<Wrapped(1, 1, 1), Wrapped(0, 1, 1)>>}

UnwrapBeginShort(p) ==
    /\ call[p].pc = "idle"
    /\ \E k \in IdentityKeys, ss \in ShortStanzaLists, fault \in {"none", "search", "read"} :
          call' = [call EXCEPT ![p] =
                      UnwrapEntered([Idle EXCEPT !.publicKey = k, !.stanzas = ss],
                                    store, env, fault)]
    /\ UNCHANGED <<env, store, wire, sent, got, clock, wraps, clamped, wizard>>

CacheAndScanTimed(p) ==
    /\ call[p].pc = "cache"
    /\ \E fault \in {"none", "add"} :
          /\ store' = cacheKey(Fingerprint(call[p].publicKey), call[p].privKey,
                               store, env, fault)
          /\ clock' = IF cacheTTL(env) # 0 /\ fault = "none" THEN 0 ELSE clock
    /\ call' = [call EXCEPT ![p] = Cached(call[p])]
    /\ UNCHANGED <<env, wire, sent, got, wraps, clamped, wizard>>

\* time passes up to instant t, and the kernel expires what has timed out
Tick ==
    /\ \E t \in Instants :
          /\ t > clock
          /\ clock' = t
          /\ store' = [name \in DOMAIN store |->
                          IF /\ store[name].present
                             /\ store[name].timeout > 0
                             /\ t >= store[name].timeout * 1000
                          THEN NoEntry ELSE store[name]]
    /\ UNCHANGED <<env, call, wire, sent, got, wraps, clamped, wizard>>

InitTimed ==
    /\ env \in TimedEnvValues
    /\ call = [p \in {1} |-> Idle]
    /\ store = [name \in Names |-> NoEntry]
    /\ wire = <<>>
    /\ sent = NotSent
    /\ got = NotGot
    /\ clock = 0
    /\ wraps = {}
    /\ clamped = NoScalar
    /\ wizard = NoWizard

NextTimed ==
    \/ \E p \in Procs : UnwrapBeginShort(p)
    \/ \E p \in Procs : PromptReturns(p)
    \/ \E p \in Procs : CacheAndScanTimed(p)
    \/ \E p \in Procs : UnwrapReturn(p)
    \/ Tick

SpecTimed == InitTimed /\ [][NextTimed]_vars

(***************************************************************************)
(* Several plugin processes unwrapping for the same identity against the   *)
(* one user keyring.  cacheKey is its two system calls, add_key and        *)
(* KEYCTL_SET_TIMEOUT, and other processes run between them.               *)
(***************************************************************************)
NumProcs == 2

\* unix.AddKey in cacheKey (part_000:53-62); an update of an existing key
\* keeps or clears the timeout set on it
AddKeyStep(p) ==
    LET name == Fingerprint(call[p].publicKey)
        payload == HexEncode(call[p].privKey)
    IN  /\ call[p].pc = "cache"
        /\ \/ /\ cacheTTL(env) = 0
              /\ store' = store
              /\ call' = [call EXCEPT ![p] = Cached(call[p])]
           \/ /\ cacheTTL(env) # 0
              /\ store' = cacheKey(name, call[p].privKey, store, env, "add")
              /\ call' = [call EXCEPT ![p] = Cached(call[p])]
           \/ /\ cacheTTL(env) # 0
              /\ \E seconds \in {0, store[name].timeout} :
                    store' = [store EXCEPT ![name] = Entry(payload, seconds)]
              /\ call' = [call EXCEPT ![p].pc = "timeout"]
        /\ UNCHANGED <<env, wire, sent, got, clock, wraps, clamped, wizard>>

\* unix.KeyctlInt(KEYCTL_SET_TIMEOUT, ...) in cacheKey (part_000:65), its
\* result discarded, and then main.go:237-248
SetTimeoutStep(p) ==
    LET name == Fingerprint(call[p].publicKey)
    IN  /\ call[p].pc = "timeout"
        /\ store' = IF store[name].present
                    THEN [store EXCEPT ![name].timeout = cacheTTL(env) \div 1000]
                    ELSE store
        /\ call' = [call EXCEPT ![p] = Cached(call[p])]
        /\ UNCHANGED <<env, wire, sent, got, clock, wraps, clamped, wizard>>

InitConc ==
    /\ env \in EnvValues
    /\ call = [p \in 1..NumProcs |-> Idle]
    /\ store = [name \in Names |-> NoEntry]
    /\ wire = <<>>
    /\ sent = NotSent
    /\ got = NotGot
    /\ clock = 0
    /\ wraps = {}
    /\ clamped = NoScalar
    /\ wizard = NoWizard

NextConc ==
    \/ \E p \in Procs : UnwrapBeginShort(p)
    \/ \E p \in Procs : PromptReturns(p)
    \/ \E p \in Procs : AddKeyStep(p)
    \/ \E p \in Procs : SetTimeoutStep(p)
    \/ \E p \in Procs : UnwrapReturn(p)
    \/ \E name \in Names : KeyExpires(name)

SpecConc == InitConc /\ [][NextConc]_vars

(***************************************************************************)
(* A sequence of Recipient.Wrap calls.  rand.Reader never gives the same   *)
(* bytes twice: each call draws bytes no earlier call has drawn.           *)
(***************************************************************************)
MaxWraps == 3

WrapDraws == {EphemeralOf(i) : i \in 1..MaxWraps}
WrapRecipients == {0, 1}

WrapCall ==
    /\ \E n \in WrapRecipients, fileKey \in FileKeys,
          rnd \in WrapDraws \ {w.rnd : w \in wraps} :
          LET stanzas == RecipientWrap(KeyPair(n).pub, fileKey, rnd)
          IN  /\ stanzas.ok
              /\ wraps' = wraps \cup {[n |-> n, fileKey |-> fileKey, rnd |-> rnd,
                                       stanza |-> stanzas.val[1]]}
    /\ UNCHANGED <<env, store, call, wire, sent, got, clock, clamped, wizard>>

InitWrap == Init /\ env = ""

NextWrap == WrapCall

SpecWrap == InitWrap /\ [][NextWrap]_vars

(***************************************************************************)
(* The clamp on every hash prefix: deriveX25519FromMnemonic clamps the     *)
(* first KeyLen bytes of the hash, and curve25519.X25519 clamps the scalar *)
(* it is given once more.                                                  *)
(***************************************************************************)
MaxClamps == 2

HashPrefixes == {<<a, b>> : a \in Byte, b \in Byte}

ClampStep ==
    /\ clamped.n < MaxClamps
    /\ clamped' = [clamped EXCEPT !.k = Clamp(@), !.n = @ + 1]
    /\ UNCHANGED <<env, store, call, wire, sent, got, clock, wraps, wizard>>

InitClamp ==
    /\ env = ""
    /\ call = [p \in {1} |-> Idle]
    /\ store = [name \in Names |-> NoEntry]
    /\ wire = <<>>
    /\ sent = NotSent
    /\ got = NotGot
    /\ clock = 0
    /\ wraps = {}
    /\ clamped \in {[h |-> h, k |-> h, n |-> 0] : h \in HashPrefixes}
    /\ wizard = NoWizard

NextClamp == ClampStep

SpecClamp == InitClamp /\ [][NextClamp]_vars

(***************************************************************************)
(* Properties.                                                             *)
(***************************************************************************)
(***************************************************************************)
(* The keyring written by this program only: it starts empty, the plugin   *)
(* is started with the identity of any of the key pairs (HandleIdentity,   *)
(* main.go:61-66), call after call, and nobody else writes the keyring.    *)
(***************************************************************************)
OwnKeys == {KeyPair(n).pub : n \in Entropies}
OwnNames == {Fingerprint(k) : k \in OwnKeys}
OwnStanzaLists ==
    {<<Wrapped(0, 1, 1)>>, <<Wrapped(1, 1, 1), Wrapped(0, 2, 2)>>, <<OtherType>>}

UnwrapBeginOwn(p) ==
    /\ call[p].pc = "idle"
    /\ \E k \in OwnKeys, ss \in OwnStanzaLists, fault \in {"none", "search", "read"} :
          call' = [call EXCEPT ![p] =
                      UnwrapEntered([Idle EXCEPT !.publicKey = k, !.stanzas = ss],
                                    store, env, fault)]
    /\ UNCHANGED <<env, store, wire, sent, got, clock, wraps, clamped, wizard>>

InitOwn ==
    /\ env \in EnvValues
    /\ call = [p \in {1} |-> Idle]
    /\ store = [name \in OwnNames |-> NoEntry]
    /\ wire = <<>>
    /\ sent = NotSent
    /\ got = NotGot
    /\ clock = 0
    /\ wraps = {}
    /\ clamped = NoScalar
    /\ wizard = NoWizard

NextOwn ==
    \/ \E p \in Procs : UnwrapBeginOwn(p)
    \/ \E p \in Procs : PromptReturns(p)
    \/ \E p \in Procs : CacheAndScan(p)
    \/ \E p \in Procs : UnwrapReturn(p)
    \/ \E name \in OwnNames : KeyExpires(name)

SpecOwn == InitOwn /\ [][NextOwn]_vars

(***************************************************************************)
(* The keygen command in a terminal: runKeygenInteractive generates a      *)
(* phrase and runs the wizard on it.  Two runs of the program, started     *)
(* with any two generated phrases, are fed the same key events and the     *)
(* same random positions, and have the random source fail in the same      *)
(* calls, until one of them quits.  Two runs started with                  *)
(* the same phrase and given the same phrases by Regenerate stay equal, so *)
(* every run of the program on its own is among them.                      *)
(***************************************************************************)
NumGenerated == 2

\* what a key may leave in the text input of cell idx: nothing or the
\* word the first phrase has there, and in one cell each: white space, a
\* word outside the list, the word in upper case with white space around it
TypedTexts(idx) ==
    IF idx < 0 \/ idx >= gridTotal THEN {Text(FALSE, FALSE, <<>>)}
    ELSE {Text(FALSE, FALSE, <<>>), GeneratedOf(1)[idx + 1]}
         \cup (IF idx = 0 THEN {Text(TRUE, FALSE, <<>>)}
               ELSE IF idx = 1 THEN {Text(FALSE, FALSE, <<8>>)}
               ELSE IF idx = 2
               THEN {[GeneratedOf(1)[idx + 1] EXCEPT !.pad = TRUE, !.upper = TRUE]}
               ELSE {})

KeyMsg(key) ==
    LET onContinue == \E r \in DOMAIN wizard :
                         wizard[r].phase = "input" /\ wizard[r].focused = gridTotal + 1
        onRegenerate == \E r \in DOMAIN wizard :
                           wizard[r].phase = "input" /\ wizard[r].focused = gridTotal
        words == {Ok(GeneratedOf(i)) : i \in 1..NumGenerated}
    IN  /\ \A r \in DOMAIN wizard : ~wizard[r].done /\ ~wizard[r].aborted
        /\ \E text \in IF key = "rune" THEN TypedTexts(wizard[1].focused)
                       ELSE {Text(FALSE, FALSE, <<>>)} :
           \E draw \in IF key = "enter" /\ onContinue
                       THEN pickTwoRandomPositions(gridTotal) ELSE {Failed} :
           \E gen \in IF key = "enter" /\ onRegenerate
                      THEN [DOMAIN wizard -> words] \cup [DOMAIN wizard -> {Failed}]
                      ELSE [DOMAIN wizard -> {Failed}] :
              wizard' = [r \in DOMAIN wizard |->
                            Update(wizard[r], [key |-> key, text |-> text,
                                               draw |-> draw, words |-> gen[r]])]
        /\ UNCHANGED <<env, store, call, wire, sent, got, clock, wraps, clamped>>

InitGrid ==
    /\ env = ""
    /\ call = [p \in {1} |-> Idle]
    /\ store = [name \in Names |-> NoEntry]
    /\ wire = <<>>
    /\ sent = NotSent
    /\ got = NotGot
    /\ clock = 0
    /\ wraps = {}
    /\ clamped = NoScalar
    /\ \E g \in [{1, 2} -> 1..NumGenerated] :
          wizard = [r \in {1, 2} |-> newWordGridModel(GeneratedOf(g[r]))]

NextGrid ==
    \/ KeyMsg("esc")
    \/ \E key \in {"tab", "shift+tab"} : KeyMsg(key)
    \/ \E key \in {"up", "down", "left", "right"} : KeyMsg(key)
    \/ KeyMsg("enter")
    \/ KeyMsg("rune")

SpecGrid == InitGrid /\ [][NextGrid]_vars

Ops(log) == {log[i].op : i \in 1..Len(log)}
Count(log, op) == Cardinality({i \in 1..Len(log) : log[i].op = op})
TriedIn(log) == SelectSeq(log, LAMBDA e : e.op = "unwrapX25519")

\* C1: a call that was given a phrase with a valid checksum whose derived
\* public key is not the identity's ends with the mismatch error, and has
\* not invoked unwrapX25519 on any stanza.
C1_MismatchBeforeUnwrap ==
    \A p \in Procs :
        LET c == call[p]
        IN  (/\ c.asked = "typed"
             /\ IsMnemonicValid(c.mnemonic)
             /\ deriveX25519FromMnemonic(c.mnemonic).pub # c.publicKey)
            => /\ c.pc = "done"
               /\ c.res = Error("Mismatch")
               /\ "unwrapX25519" \notin Ops(c.log)
               /\ "getCachedKey" \in Ops(c.log)

C1_Witness ==
    \E p \in Procs :
        /\ call[p].asked = "typed"
        /\ IsMnemonicValid(call[p].mnemonic)
        /\ deriveX25519FromMnemonic(call[p].mnemonic).pub # call[p].publicKey
        /\ call[p].res = Error("Mismatch")

\* C2: unwrapping what Recipient.Wrap returned for the key pair of an
\* entropy, with that key pair, returns the file key that was wrapped,
\* for every ephemeral key drawn.
C2_RoundTrip ==
    (got.ok /\ sent.flipped = "none" /\ got.n = sent.n)
    => got.res = FileKey(sent.fileKey)

C2_Witness ==
    /\ got.ok /\ sent.flipped = "none" /\ got.n = sent.n
    /\ got.res.ok /\ got.tried = <<1>>

\* C3: unwrapping what Recipient.Wrap returned for one public key with the
\* key pair of a different public key fails with IncorrectIdentity.
C3_ForeignRejected ==
    (got.ok /\ sent.flipped = "none" /\ KeyPair(got.n).pub # KeyPair(sent.n).pub)
    => got.res = ErrIncorrectIdentity

C3_Witness ==
    /\ got.ok /\ sent.flipped = "none"
    /\ KeyPair(got.n).pub # KeyPair(sent.n).pub
    /\ got.tried = <<1>> /\ ~got.res.ok

\* C4: after one bit of the stanza's body or of its ephemeral-key argument
\* has changed, unwrap with the matching key pair fails with
\* IncorrectIdentity; and no unwrap ever returns a file key other than the
\* one wrapped.
C4_TamperDetected ==
    /\ (got.ok /\ sent.flipped # "none" /\ got.n = sent.n)
       => got.res = ErrIncorrectIdentity
    /\ (got.ok /\ got.res.ok) => got.res.key = sent.fileKey

\* the changed argument still decodes to a key, and to the same curve point
C4_Witness ==
    /\ got.ok /\ sent.flipped = "arg" /\ got.n = sent.n
    /\ B64Decode(wire[1].Args[1]).ok
    /\ Len(B64Decode(wire[1].Args[1]).val) = KeyLen
    /\ DecodeU(B64Decode(wire[1].Args[1]).val) = DecodeU(GenerateKey(sent.rnd).pub)
    /\ ~got.res.ok

\* C5: with a private key in hand the result is the file key of the first
\* X25519 stanza, in input order, that decrypts under it, unwrapX25519 having
\* been invoked on exactly the X25519 stanzas up to that one, in order; and
\* it is IncorrectIdentity, every X25519 stanza having been tried, when none
\* decrypts.
C5_FirstDecryptingStanza ==
    \A p \in Procs :
        LET c == call[p]
            X == {i \in 1..Len(c.stanzas) : c.stanzas[i].Type = "X25519"}
            D == {i \in X : unwrapX25519(c.privKey, c.publicKey, c.stanzas[i]).ok}
            first == CHOOSE i \in D : \A j \in D : i <= j
            tried == TriedIn(c.log)
        IN  (c.pc = "done" /\ c.privKey # <<>>)
            => /\ \A i \in 1..Len(tried) : \A j \in 1..Len(tried) :
                     i < j => tried[i].arg < tried[j].arg
               /\ IF D = {}
                  THEN /\ c.res = ErrIncorrectIdentity
                       /\ {tried[i].arg : i \in 1..Len(tried)} = X
                  ELSE /\ c.res = FileKey(unwrapX25519(c.privKey, c.publicKey,
                                                       c.stanzas[first]).val)
                       /\ {tried[i].arg : i \in 1..Len(tried)} = {i \in X : i <= first}

\* the file key comes from the second stanza, the first being an X25519
\* stanza that does not decrypt
C5_Witness ==
    \E p \in Procs :
        /\ call[p].pc = "done" /\ call[p].privKey # <<>>
        /\ Len(call[p].stanzas) >= 2
        /\ call[p].stanzas[1].Type = "X25519"
        /\ ~unwrapX25519(call[p].privKey, call[p].publicKey, call[p].stanzas[1]).ok
        /\ call[p].res.ok
        /\ call[p].res.key = FileKeyOf(2)

\* C6: a call on a stanza sequence without an X25519 stanza has returned
\* IncorrectIdentity.
C6_NoX25519Stanza ==
    \A p \in Procs :
        (/\ call[p].pc # "idle"
         /\ \A i \in 1..Len(call[p].stanzas) : call[p].stanzas[i].Type # "X25519")
        => call[p].pc = "done" /\ call[p].res = ErrIncorrectIdentity

C6_Witness ==
    \E p \in Procs :
        /\ call[p].pc = "done"
        /\ call[p].stanzas # <<>>
        /\ \A i \in 1..Len(call[p].stanzas) : call[p].stanzas[i].Type # "X25519"
        /\ call[p].res = ErrIncorrectIdentity

\* C7: a call to which getCachedKey returned a key has decrypted with that
\* key and returned, having called nothing but getCachedKey and
\* unwrapX25519: no prompt, no validation, no derivation, no comparison.
C7_CacheHitDirect ==
    \A p \in Procs :
        LET c == call[p]
        IN  c.cached.kind = "key"
            => /\ c.pc = "done"
               /\ c.asked = "no"
               /\ c.privKey = c.cached.key
               /\ Ops(c.log) \subseteq {"getCachedKey", "unwrapX25519"}
               /\ c.res = ScanStanzas(c.cached.key, c.publicKey, c.stanzas).res

C7_Witness ==
    \E p \in Procs :
        /\ call[p].cached.kind = "key"
        /\ call[p].cached.key = KeyPair(0).priv
        /\ call[p].res.ok

\* C8: a call whose typed phrase fails validation has returned the
\* invalid-mnemonic error without derivation, comparison, cache write or
\* stanza decryption.
C8_InvalidMnemonicStops ==
    \A p \in Procs :
        LET c == call[p]
        IN  (c.asked = "typed" /\ ~IsMnemonicValid(c.mnemonic))
            => /\ c.pc = "done"
               /\ c.res = Error("InvalidMnemonic")
               /\ Ops(c.log) \cap {"deriveX25519FromMnemonic", "bytesEqual",
                                   "cacheKey", "unwrapX25519"} = {}

C8_Witness ==
    \E p \in Procs :
        /\ call[p].asked = "typed"
        /\ call[p].mnemonic = BadChecksumPhrase
        /\ call[p].res = Error("InvalidMnemonic")

\* C9: a call prompts at most once, and a call whose prompt failed has
\* returned an error having called nothing after the prompt.
C9_OneAttempt ==
    \A p \in Procs :
        LET c == call[p]
        IN  /\ Count(c.log, "RequestValue") <= 1
            /\ c.asked = "failed"
               => /\ c.pc = "done"
                  /\ c.res = Error("RequestFailed")
                  /\ c.log = <<Did("getCachedKey", 0), Did("RequestValue", 0)>>

C9_Witness ==
    \E p \in Procs : call[p].asked = "failed" /\ call[p].pc = "done"

\* C10: getCachedKey returns either no key or a key of KeyLen bytes, never
\* fails, and a call to which it returned no key goes on to prompt.
C10_GetCachedKeyNeverFails ==
    \A p \in Procs :
        LET c == call[p]
        IN  /\ c.cached.kind \in {"nil", "key"}
            /\ c.res # Error("panic")
            /\ c.cached.kind = "key" => Len(c.cached.key) = KeyLen
            /\ ("getCachedKey" \in Ops(c.log) /\ c.cached.kind = "nil")
               => "RequestValue" \in Ops(c.log)

\* C11: with a TTL of 0 getCachedKey has returned no key to every call,
\* whatever the keyring holds, and the keyring holds the private key of no
\* identity: cacheKey has written nothing.
C11_CacheDisabled ==
    cacheTTL(env) = 0
    => /\ \A p \in Procs : call[p].cached = NoCachedKey
       /\ \A n \in IdentityEntropies :
             store[Fingerprint(KeyPair(n).pub)].payload # HexEncode(KeyPair(n).priv)

\* a call has derived the key, called cacheKey and decrypted, and the
\* keyring holds a well-formed entry under the name, left by another program
C11_Witness ==
    /\ cacheTTL(env) = 0
    /\ \E p \in Procs :
          /\ call[p].pc = "done"
          /\ "cacheKey" \in Ops(call[p].log)
          /\ call[p].res.ok
          /\ store[Fingerprint(call[p].publicKey)].present
          /\ HexDecode(store[Fingerprint(call[p].publicKey)].payload).ok
          /\ Len(HexDecode(store[Fingerprint(call[p].publicKey)].payload).val) = KeyLen

\* C13: cacheTTL gives 10 minutes for an unset or empty value, 0 for "0",
\* the duration for a value that parses as one and 10 minutes for any other
\* value; and the entry cacheKey writes carries that TTL, in seconds.
C13_CacheTTL ==
    /\ env = "" => cacheTTL(env) = 600000
    /\ env = "0" => cacheTTL(env) = 0
    /\ (env \notin {"", "0"} /\ ParseDuration(env).ok)
       => cacheTTL(env) = ParseDuration(env).d
    /\ (env \notin {"", "0"} /\ ~ParseDuration(env).ok) => cacheTTL(env) = 600000
    /\ \A n \in IdentityEntropies :
          LET entry == store[Fingerprint(KeyPair(n).pub)]
          IN  (entry.present /\ entry.payload = HexEncode(KeyPair(n).priv))
              => entry.timeout = cacheTTL(env) \div 1000

\* a value that does not parse, and cacheKey has written with the default
C13_Witness ==
    /\ ~ParseDuration(env).ok /\ env \notin {"", "0"}
    /\ \E n \in IdentityEntropies :
          store[Fingerprint(KeyPair(n).pub)] = Entry(HexEncode(KeyPair(n).priv), 600)

\* C14: the outcome of a call that reached cacheKey is the outcome of the
\* stanza loop under the key derived from the phrase typed: it is decided by
\* the identity, the phrase and the stanzas, whether the write to the
\* keyring succeeded, failed or was skipped, and is never an error of the
\* keyring.
C14_CachingNotRequired ==
    \A p \in Procs :
        LET c == call[p]
        IN  (c.pc = "done" /\ "cacheKey" \in Ops(c.log))
            => /\ c.res = ScanStanzas(deriveX25519FromMnemonic(c.mnemonic).priv,
                                      c.publicKey, c.stanzas).res
               /\ c.res.ok \/ c.res = ErrIncorrectIdentity

\* the call returned the file key although caching is on and the keyring
\* holds no entry: the write has failed
C14_Witness ==
    \E p \in Procs :
        /\ call[p].pc = "done"
        /\ "cacheKey" \in Ops(call[p].log)
        /\ call[p].res.ok
        /\ cacheTTL(env) # 0
        /\ ~store[Fingerprint(call[p].publicKey)].present

\* C15 as stated: a call makes at most one cache operation, getCachedKey
\* and cacheKey counted together.
C15_AtMostOneCacheOp ==
    \A p \in Procs :
        Count(call[p].log, "getCachedKey") + Count(call[p].log, "cacheKey") <= 1

\* C15 amended: a call reads the cache at most once and writes it at most
\* once; the read is the first thing it does, and the write comes only after
\* that read missed and the phrase typed matched the identity.
C15_OneReadOneWrite ==
    \A p \in Procs :
        LET c == call[p]
        IN  /\ Count(c.log, "getCachedKey") <= 1
            /\ Count(c.log, "cacheKey") <= 1
            /\ "getCachedKey" \in Ops(c.log) => c.log[1].op = "getCachedKey"
            /\ "cacheKey" \in Ops(c.log)
               => /\ c.cached = NoCachedKey
                  /\ c.asked = "typed"
                  /\ deriveX25519FromMnemonic(c.mnemonic).pub = c.publicKey

\* a call that missed, derived the matching key and wrote it: two operations
C15_Witness ==
    \E p \in Procs :
        /\ call[p].pc = "done"
        /\ Count(call[p].log, "getCachedKey") = 1
        /\ Count(call[p].log, "cacheKey") = 1
        /\ store[Fingerprint(call[p].publicKey)].present

\* C18: every key pair deriveX25519FromMnemonic has produced in a call comes
\* from an entropy of the full length (32 bytes: the phrase of KeyLen
\* words); a phrase with a shorter entropy produces no key pair.
C18_OnlyFullEntropy ==
    \A p \in Procs :
        LET c == call[p]
        IN  (/\ "deriveX25519FromMnemonic" \in Ops(c.log)
             /\ deriveX25519FromMnemonic(c.mnemonic).ok)
            => EntropyFromMnemonic(c.mnemonic).val.len = KeyLen

C12_EntryExpires ==
    \A name \in DOMAIN store :
        (store[name].present /\ cacheTTL(env) # 0) => clock < cacheTTL(env)

\* what the call c returns when it runs alone on an empty keyring, on the
\* same stanzas, the user giving the answer c was given or, if c was not
\* asked, the phrase of the identity
AloneAnswer(c) ==
    IF c.asked = "failed" THEN PromptFailed
    ELSE IF c.asked = "typed" THEN Typed(c.mnemonic)
    ELSE Typed(PhraseOf(CHOOSE n \in IdentityEntropies : KeyPair(n).pub = c.publicKey))

Alone(c) ==
    LET c0 == UnwrapEntered([Idle EXCEPT !.publicKey = c.publicKey,
                                         !.stanzas = c.stanzas],
                            [name \in Names |-> NoEntry], env, "none")
        c1 == IF c0.pc = "prompt" THEN Prompted(c0, AloneAnswer(c)) ELSE c0
        c2 == IF c1.pc = "cache" THEN Cached(c1) ELSE c1
    IN  c2.res

\* C16: under every interleaving of the calls of several processes the
\* entry of an identity is absent or holds the private key of that
\* identity, and every finished call has the result it has when run alone.
C16_ConcurrentUnwraps ==
    /\ \A n \in IdentityEntropies :
          LET entry == store[Fingerprint(KeyPair(n).pub)]
          IN  entry.present => entry.payload = HexEncode(KeyPair(n).priv)
    /\ \A p \in Procs : call[p].pc = "done" => call[p].res = Alone(call[p])

\* one process is between its two system calls, having written the entry,
\* and another has finished with the key it found in the cache
C16_Witness ==
    \E p \in Procs, q \in Procs :
        /\ p # q
        /\ call[p].pc = "timeout"
        /\ call[q].pc = "done"
        /\ call[q].cached.kind = "key"
        /\ call[q].res.ok

\* the key a stanza's body was sealed under
WrappingKeyOf(stanza) == stanza.Body.tag[1].mac[1]

\* C17: every wrapX25519 call sealed under the key derived from the
\* ephemeral key pair of its own draw, and no two calls sealed under the
\* same key or sent the same ephemeral public key.
C17_FreshWrappingKey ==
    /\ \A w \in wraps :
          WrappingKeyOf(w.stanza)
              = HKDF(X25519(w.rnd, KeyPair(w.n).pub).val,
                     Salt(X25519(w.rnd, Basepoint).val, KeyPair(w.n).pub),
                     x25519Label)
    /\ \A a \in wraps, b \in wraps :
          a # b => /\ WrappingKeyOf(a.stanza) # WrappingKeyOf(b.stanza)
                   /\ a.stanza.Args # b.stanza.Args

\* the same file key wrapped twice for the same recipient
C17_Witness ==
    \E a \in wraps, b \in wraps :
        a # b /\ a.n = b.n /\ a.fileKey = b.fileKey

\* C20: once clamped, and however often clamped again, the scalar has the
\* low 3 bits of its first byte 0, bit 7 of its last byte 0 and bit 6 of its
\* last byte 1, and every other bit as in the hash prefix.
C20_Clamping ==
    clamped.n >= 1
    => /\ Len(clamped.k) = KeyLen
       /\ clamped.k[1] % 8 = 0
       /\ clamped.k[1] \div 8 = clamped.h[1] \div 8
       /\ clamped.k[KeyLen] \div 128 = 0
       /\ (clamped.k[KeyLen] \div 64) % 2 = 1
       /\ clamped.k[KeyLen] % 64 = clamped.h[KeyLen] % 64
       /\ \A i \in 2..(KeyLen - 1) : clamped.k[i] = clamped.h[i]

\* a prefix in which every clamped bit has to change, clamped twice
C20_Witness ==
    /\ clamped.n = 2
    /\ clamped.h[1] % 8 = 7
    /\ clamped.h[KeyLen] \div 64 = 2
    /\ clamped.k = <<clamped.h[1] - 7, clamped.h[KeyLen] - 64>>

\* C21: in a keyring that starts empty and is written by this program only,
\* every entry named by the fingerprint of a public key P holds a private
\* key whose public key is P; a call that has written the cache was given a
\* checksum-valid phrase whose derived public key equals the identity's;
\* and the key a call decrypts with has the identity's public key.
C21_CacheHoldsMatchingKey ==
    /\ \A n \in Entropies :
          LET P == KeyPair(n).pub
              e == store[Fingerprint(P)]
              k == HexDecode(e.payload)
          IN  e.present => k.ok /\ X25519(k.val, Basepoint) = Ok(P)
    /\ \A p \in Procs :
          LET c == call[p]
          IN  /\ "cacheKey" \in Ops(c.log)
                 => /\ c.asked = "typed"
                    /\ IsMnemonicValid(c.mnemonic)
                    /\ deriveX25519FromMnemonic(c.mnemonic).pub = c.publicKey
                    /\ deriveX25519FromMnemonic(c.mnemonic).priv = c.privKey
              /\ c.privKey # <<>>
                 => X25519(c.privKey, Basepoint) = Ok(c.publicKey)

C21_Witness ==
    /\ store[Fingerprint(KeyPair(0).pub)].present
    /\ store[Fingerprint(KeyPair(1).pub)].present
    /\ KeyPair(0).pub # KeyPair(1).pub
    /\ \E p \in Procs :
          /\ call[p].publicKey = KeyPair(1).pub
          /\ call[p].cached.kind = "key"
          /\ call[p].res.ok

\* C22: the step in which Unwrap is entered with a stanza sequence without
\* an X25519 stanza ends the call at once: no getCachedKey, no prompt, no
\* cacheKey, no key in hand, and the keyring as it was, whatever the keyring
\* holds and whatever the TTL setting is; the only step such a call still
\* takes is its return.
C22_ReturnsBeforeAnythingElse ==
    [][\A p \in Procs :
          LET c == call'[p]
              foreign == \A i \in 1..Len(c.stanzas) : c.stanzas[i].Type # "X25519"
              before == \A i \in 1..Len(call[p].stanzas) :
                            call[p].stanzas[i].Type # "X25519"
          IN  /\ (call[p].pc = "idle" /\ c.pc # "idle" /\ foreign)
                 => /\ c.pc = "done"
                    /\ c.res = ErrIncorrectIdentity
                    /\ c.log = <<>>
                    /\ c.cached = NoCachedKey
                    /\ c.asked = "no"
                    /\ c.privKey = <<>>
                    /\ store' = store
              /\ (call[p].pc # "idle" /\ before /\ c # call[p])
                 => c = Idle /\ store' = store]_vars

C22_Witness ==
    \E p \in Procs :
        /\ call[p].pc = "done"
        /\ call[p].stanzas # <<>>
        /\ \A i \in 1..Len(call[p].stanzas) : call[p].stanzas[i].Type # "X25519"
        /\ call[p].log = <<>>
        /\ call[p].cached = NoCachedKey
        /\ env = ""
        /\ store[Fingerprint(call[p].publicKey)].present
        /\ Len(store[Fingerprint(call[p].publicKey)].payload) > BufLen

\* C23: a run of the wizard has done set only (a) on Continue in the input
\* phase with a word typed in some cell, gridTotal effective words of the
\* list (the typed word of a cell, the generated one where nothing is
\* typed) and a passing checksum, or (b) on Verify in the verify phase with
\* nothing typed outside the challenged cells and both challenged words
\* typed equal to the generated ones, and then runWordGrid returns the
\* generated phrase; an aborted run is not done and runWordGrid returns an
\* error and no phrase.
C23_PhraseOnlyWhenChecked ==
    \A r \in DOMAIN wizard :
        LET m == wizard[r]
            typed(i) == TrimSpace(m.inputs[i].value).words
            phrase == runWordGrid(m)
            ws == phrase.val.words
            v == WordsValue(ws)
            challenged == {m.verifyPos[k] + 1 : k \in 1..Len(m.verifyPos)}
        IN  /\ m.done
               => /\ ~m.aborted
                  /\ phrase.ok
                  /\ Len(ws) = gridTotal
                  /\ \/ /\ m.phase = "input"
                        /\ m.focused = gridTotal + 1
                        /\ \E i \in 1..gridTotal : typed(i) # <<>>
                        /\ \A i \in 1..gridTotal :
                              /\ ws[i] \in Wordlist
                              /\ ws[i] = IF typed(i) # <<>> THEN typed(i)[1]
                                         ELSE m.generated[i].words[1]
                        /\ v % Pow2(gridTotal)
                           = Checksum(Entropy(gridTotal, v \div Pow2(gridTotal)))
                     \/ /\ m.phase = "verify"
                        /\ m.editIdx = Len(m.verifyPos) + 1
                        /\ Cardinality(challenged) = 2
                        /\ \A i \in challenged :
                              ToLower(TrimSpace(m.inputs[i].value)) = m.generated[i]
                        /\ \A i \in (1..gridTotal) \ challenged : typed(i) = <<>>
                        /\ \A i \in 1..gridTotal : ws[i] = m.generated[i].words[1]
            /\ m.aborted => ~m.done /\ ~phrase.ok /\ phrase.val = <<>>

\* Continue accepts in one run a phrase with a typed word in upper case
\* and white space in another cell, and refuses it in the other run,
\* whose generated words give another checksum
C23_Witness ==
    /\ wizard # NoWizard
    /\ wizard[1].done /\ wizard[1].phase = "input"
    /\ wizard[1].inputs[1].value = Text(TRUE, FALSE, <<>>)
    /\ wizard[1].inputs[3].value.upper
    /\ runWordGrid(wizard[1]) = Ok([pad |-> FALSE,
                                     words |-> [i \in 1..gridTotal |->
                                                   GeneratedOf(1)[i].words[1]]])
    /\ ~wizard[2].done /\ wizard[2].err = <<"checksum">>

\* C24: in the input phase focused is in 0..gridTotal+1 and lastGridFocus
\* in 0..gridTotal-1; in the verify phase verifyPos holds two distinct
\* sorted positions of the grid, editIdx is in 0..len(verifyPos)+1 and
\* focused is -1 on a button and the challenged position editIdx names
\* otherwise; there are gridTotal inputs; and a step taken in the verify
\* phase changes no input but those of the challenged cells.
C24_FocusInRange ==
    /\ [](\A r \in DOMAIN wizard :
            LET m == wizard[r]
            IN  /\ Len(m.inputs) = gridTotal
                /\ m.phase = "input"
                   => /\ m.focused \in 0..(gridTotal + 1)
                      /\ m.lastGridFocus \in 0..(gridTotal - 1)
                /\ m.phase = "verify"
                   => /\ Len(m.verifyPos) = 2
                      /\ m.verifyPos[1] \in 0..(gridTotal - 1)
                      /\ m.verifyPos[2] \in 0..(gridTotal - 1)
                      /\ m.verifyPos[1] < m.verifyPos[2]
                      /\ m.editIdx \in 0..(Len(m.verifyPos) + 1)
                      /\ m.focused = IF m.editIdx < Len(m.verifyPos)
                                     THEN m.verifyPos[m.editIdx + 1] ELSE -1)
    /\ [][\A r \in DOMAIN wizard :
            wizard[r].phase = "verify"
            => \A i \in 1..gridTotal :
                  wizard'[r].inputs[i] # wizard[r].inputs[i]
                  => \E k \in 1..Len(wizard[r].verifyPos) :
                        wizard[r].verifyPos[k] = i - 1]_vars

\* both challenged words typed, the focus on Verify, the run done
C24_Witness ==
    /\ wizard # NoWizard
    /\ wizard[1].phase = "verify" /\ wizard[1].done
    /\ wizard[1].verifyPos = <<1, 2>>
    /\ wizard[1].lastGridFocus = 3
    /\ wizard[1].editIdx = 3 /\ wizard[1].focused = -1
    /\ wizard[1].inputs[3].value.upper

\* C25: in the verify phase every cell that is not challenged is written
\* as the mask and every challenged cell has an empty placeholder and is
\* written as what was typed in it; two runs in the verify phase write the
\* same view but for the error Verify sets, and the same view while
\* neither shows an error; an error appears in the verify phase only with
\* the focus on Verify; and a step from the verify phase to the input
\* phase leaves every placeholder the generated word, the values of the
\* challenged cells empty and verifyPos empty.
C25_VerifyViewHidesPhrase ==
    /\ [](\A r \in DOMAIN wizard :
            LET m == wizard[r]
                challenged == {m.verifyPos[k] + 1 : k \in 1..Len(m.verifyPos)}
            IN  m.phase = "verify"
                => /\ \A i \in (1..gridTotal) \ challenged :
                         View(m).cells[i]
                         = [masked |-> TRUE, text |-> Text(FALSE, FALSE, <<>>)]
                   /\ \A i \in challenged :
                         /\ m.inputs[i].placeholder = Text(FALSE, FALSE, <<>>)
                         /\ View(m).cells[i]
                            = [masked |-> FALSE, text |-> m.inputs[i].value]
                   /\ \A q \in DOMAIN wizard :
                         wizard[q].phase = "verify"
                         => /\ [View(m) EXCEPT !.line = <<>>]
                               = [View(wizard[q]) EXCEPT !.line = <<>>]
                            /\ (m.err = <<>> /\ wizard[q].err = <<>>)
                               => View(m) = View(wizard[q]))
    /\ [][\A r \in DOMAIN wizard :
            LET m == wizard[r]
                n == wizard'[r]
            IN  m.phase = "verify"
                => /\ (n.err # <<>> /\ n.err # m.err)
                      => m.editIdx = Len(m.verifyPos) + 1
                   /\ n.phase = "input"
                      => /\ n.verifyPos = <<>>
                         /\ m.editIdx = Len(m.verifyPos)
                         /\ \A i \in 1..gridTotal :
                               n.inputs[i].placeholder = m.generated[i]
                         /\ \A k \in 1..Len(m.verifyPos) :
                               n.inputs[m.verifyPos[k] + 1].value
                               = Text(FALSE, FALSE, <<>>)]_vars

\* two runs with different generated phrases in the verify phase, a word
\* typed in a challenged cell
C25_Witness ==
    /\ wizard # NoWizard
    /\ wizard[1].phase = "verify" /\ wizard[2].phase = "verify"
    /\ \A i \in 1..gridTotal : wizard[1].generated[i] # wizard[2].generated[i]
    /\ wizard[1].verifyPos = <<0, 2>>
    /\ wizard[1].inputs[3].value.upper
    /\ View(wizard[1]) = View(wizard[2])
    /\ ~wizard[1].done /\ ~wizard[2].done

=============================================================================
